---- MODULE Spec2Model ----
(***************************************************************************)
(* Model of connectivity_monitor.py: the sysfs LED, its construction at    *)
(* module level, the probe, and the monitoring loop of main() with its     *)
(* exception handlers and its finally block.                               *)
(*                                                                         *)
(* The program is one thread.  Its position is pc:                         *)
(*   "led_setup"        lines 95-99, LED(LED_PATH) not yet constructed     *)
(*   "main_start"       lines 100-134, LED constructed, try not entered    *)
(*   "probe"            lines 137-139, inside try, about to ping           *)
(*   "debounce"         lines 141-159, probe result in is_connected        *)
(*   "sleep"            line 161                                           *)
(*   "finally_off"      line 168                                           *)
(*   "finally_restore"  line 169                                           *)
(*   "finally_log"      line 170                                           *)
(*   "exit0"            main() returned, interpreter exits with code 0     *)
(*   "exit1"            exit(1) of line 99                                 *)
(*   "traceback"        a KeyboardInterrupt no handler caught              *)
(*   "killed"           SIGTERM, which the program installs no handler for *)
(* The environment supplies the device condition at construction, the      *)
(* outcome of every ping, the outcome of every file write, and the signals.*)
(* The loop body of lines 145-159 is one step: a signal is taken before    *)
(* the ping, between the ping and the loop body, or during the sleep.      *)
(* The configured threshold is a variable fixed at start, so that the      *)
(* shipped value CONSECUTIVE_FAILURES is one of the configurations.        *)
(***************************************************************************)
EXTENDS Integers, Sequences, FiniteSets, TLC

VARIABLES
    pc,                    \* position of the single thread
    threshold,             \* the configured CONSECUTIVE_FAILURES (line 18)
    consecutive_failures,  \* main(): line 132
    current_status,        \* main(): line 133
    check_count,           \* main(): line 134
    is_connected,          \* main(): line 139
    brightness,            \* content of <led_path>/brightness
    trigger,               \* active mode of <led_path>/trigger
    logged,                \* what logger has emitted
    exitCode,              \* how the process ended
    origTrigger,           \* history: trigger mode before construction
    history,               \* history: the probe results the loop body consumed
    events,                \* history: the UP/DOWN transitions logged
    loopCalls,             \* history: led.on()/led.off() calls of the loop
    shutdownCalls,         \* history: led calls of the finally block
    leftBy                 \* history: what ended the loop

vars == <<pc, threshold, consecutive_failures, current_status, check_count,
          is_connected, brightness, trigger, logged, exitCode, origTrigger,
          history, events, loopCalls, shutdownCalls, leftBy>>

(***************************************************************************)
(* Bounds of the model and constants of the program.                       *)
(***************************************************************************)
MaxTicks == 6
MaxThreshold == 3
CONSECUTIVE_FAILURES == 3

UNKNOWN == "None"
TriggerModes == {"mmc0", "heartbeat"}
DeviceConditions ==
    {"ok", "missing", "brightness_denied", "trigger_denied", "trigger_ioerror"}
PingOutcomes == {"rc0", "rc_nonzero", "TimeoutExpired", "OSError"}
WriteOutcomes == {"ok", "PermissionError", "OSError"}
BrightnessOutcomes == {"ok", "OSError"}
InLoop == {"probe", "debounce", "sleep"}
InFinally == {"finally_off", "finally_restore", "finally_log"}
Ended == {"exit0", "exit1", "traceback", "killed"}

Log(level, msg, e) == [level |-> level, msg |-> msg, e |-> e]

(***************************************************************************)
(* class LED.  A file operation takes its outcome wr from the environment. *)
(* Each method is an operator over the LED's files that yields the new     *)
(* file content, what it logged and the exception it raised ("" for none). *)
(***************************************************************************)

\* LED._set_trigger: write the mode; log and re-raise a failure.
set_trigger(mode, wr) ==
    IF wr = "ok"
    THEN [trigger |-> mode,
          log |-> {Log("DEBUG", "LED trigger set to", mode)},
          raised |-> ""]
    ELSE IF wr = "PermissionError"
    THEN [trigger |-> trigger,
          log |-> {Log("ERROR", "Permission denied setting trigger", mode)},
          raised |-> "PermissionError"]
    ELSE [trigger |-> trigger,
          log |-> {Log("ERROR", "Failed to set LED trigger", wr)},
          raised |-> wr]

\* Variants of LED.__init__, each with one slip.  Swallowed: a failure is
\* logged and not re-raised.  Wrapped: a failure is logged without its text
\* and re-raised as a plain Exception.  NoTrigger: the trigger is never set.
LED_init_Swallowed(dev) ==
    IF dev = "ok"
    THEN [trigger |-> "none",
          log |-> {Log("INFO", "LED initialized via sysfs", ""),
                   Log("DEBUG", "LED trigger set to", "none")},
          raised |-> ""]
    ELSE [trigger |-> trigger,
          log |-> {Log("ERROR", "Failed to initialize LED at", dev)},
          raised |-> ""]
LED_init_Wrapped(dev) ==
    IF dev = "ok"
    THEN [trigger |-> "none",
          log |-> {Log("INFO", "LED initialized via sysfs", ""),
                   Log("DEBUG", "LED trigger set to", "none")},
          raised |-> ""]
    ELSE [trigger |-> trigger,
          log |-> {Log("ERROR", "Failed to initialize LED at", "")},
          raised |-> "Exception"]
LED_init_NoTrigger(dev) ==
    IF dev \in {"missing", "brightness_denied"}
    THEN [trigger |-> trigger,
          log |-> {Log("ERROR", "Failed to initialize LED at", dev)},
          raised |-> dev]
    ELSE [trigger |-> trigger,
          log |-> {Log("INFO", "LED initialized via sysfs", "")},
          raised |-> ""]

\* LED.__init__: open the brightness file for reading, then set the trigger
\* to "none"; any failure is logged and re-raised.
LED_init(dev) ==
    IF dev \in {"missing", "brightness_denied"}
    THEN LET e == IF dev = "missing" THEN "FileNotFoundError"
                  ELSE "PermissionError"
         IN  [trigger |-> trigger,
              log |-> {Log("ERROR", "Failed to initialize LED at", e)},
              raised |-> e]
    ELSE LET wr == IF dev = "trigger_denied" THEN "PermissionError"
                   ELSE IF dev = "trigger_ioerror" THEN "OSError" ELSE "ok"
             t == set_trigger("none", wr)
             opened == {Log("INFO", "LED initialized via sysfs", "")}
         IN  IF t.raised = ""
             THEN [trigger |-> t.trigger, log |-> opened \cup t.log,
                   raised |-> ""]
             ELSE [trigger |-> t.trigger,
                   log |-> opened \cup t.log \cup
                       {Log("ERROR", "Failed to initialize LED at", t.raised)},
                   raised |-> t.raised]

\* LED.on: write '1'; a failure is logged and swallowed.
on(wr) ==
    IF wr = "ok"
    THEN [brightness |-> "1", log |-> {}]
    ELSE [brightness |-> brightness,
          log |-> {Log("ERROR", "Failed to turn LED on", wr)}]

\* LED.off: write '0'; a failure is logged and swallowed.
off(wr) ==
    IF wr = "ok"
    THEN [brightness |-> "0", log |-> {}]
    ELSE [brightness |-> brightness,
          log |-> {Log("ERROR", "Failed to turn LED off", wr)}]

\* LED.restore_default: set the trigger to "mmc0"; a failure is logged and
\* swallowed.
restore_default(wr) ==
    LET t == set_trigger("mmc0", wr)
    IN  IF t.raised = ""
        THEN [trigger |-> t.trigger,
              log |-> t.log \cup
                  {Log("INFO", "LED trigger restored to default (mmc0)", "")}]
        ELSE [trigger |-> t.trigger,
              log |-> t.log \cup
                  {Log("ERROR", "Failed to restore LED to default", t.raised)}]

(***************************************************************************)
(* check_internet_connectivity: one ping; True only for return code 0.     *)
(***************************************************************************)
\* A variant with one slip: the handler of lines 119-121 is missing, so an
\* error launching the ping propagates to the caller.
check_internet_connectivity_Propagates(outcome) ==
    IF outcome = "rc0" THEN [result |-> TRUE, log |-> {}, raised |-> ""]
    ELSE IF outcome = "rc_nonzero"
    THEN [result |-> FALSE, log |-> {}, raised |-> ""]
    ELSE IF outcome = "TimeoutExpired"
    THEN [result |-> FALSE, log |-> {Log("WARNING", "Ping timed out", "")},
          raised |-> ""]
    ELSE [result |-> FALSE, log |-> {}, raised |-> outcome]

\* The value returned, what was logged and the exception raised to the
\* caller ("" for none).
check_internet_connectivity(outcome) ==
    IF outcome = "rc0" THEN [result |-> TRUE, log |-> {}, raised |-> ""]
    ELSE IF outcome = "rc_nonzero"
    THEN [result |-> FALSE, log |-> {}, raised |-> ""]
    ELSE IF outcome = "TimeoutExpired"
    THEN [result |-> FALSE, log |-> {Log("WARNING", "Ping timed out", "")},
          raised |-> ""]
    ELSE [result |-> FALSE,
          log |-> {Log("ERROR", "Error during ping", outcome)},
          raised |-> ""]

(***************************************************************************)
(* The decisions of the loop body, lines 145-157.                          *)
(***************************************************************************)
\* Variants of the decisions, each with one slip: the counter kept on a
\* success, the LED switched on at every success, the threshold compared one
\* too early, the LED switched off at every failure past the threshold; the
\* threshold ignored or compared strictly; the counter set to 1 instead of
\* incremented, or no longer incremented once the threshold is reached.
CounterAfterSuccess_Kept(cf) == cf
CounterAfterFailure_Stuck(cf) == 1
CounterAfterFailure_Saturating(cf) == IF cf >= threshold THEN cf ELSE cf + 1
UpTransition_Always(status) == TRUE
ThresholdReached_OneEarly(cf) == cf + 1 >= threshold
ThresholdReached_Ignored(cf) == cf >= 1
ThresholdReached_Strict(cf) == cf > threshold
DownTransition_Always(status) == TRUE

\* line 146
CounterAfterSuccess(cf) == 0
\* line 152
CounterAfterFailure(cf) == cf + 1
\* line 147
UpTransition(status) == status # "UP"
\* line 153
ThresholdReached(cf) == cf >= threshold
\* line 154
DownTransition(status) == status # "DOWN"

(***************************************************************************)
(* Initial state: the interpreter has run lines 1-94.  The device is in    *)
(* any trigger mode and the LED in any brightness.                         *)
(***************************************************************************)
Init ==
    /\ pc = "led_setup"
    /\ threshold \in 1..MaxThreshold
    /\ consecutive_failures = 0
    /\ current_status = UNKNOWN
    /\ check_count = 0
    /\ is_connected = FALSE
    /\ brightness \in {"0", "1"}
    /\ trigger \in TriggerModes
    /\ logged = {}
    /\ exitCode = "running"
    /\ origTrigger = trigger
    /\ history = <<>>
    /\ events = <<>>
    /\ loopCalls = <<>>
    /\ shutdownCalls = <<>>
    /\ leftBy = ""

\* lines 95-99: construct the LED, or log and exit(1).
LEDSetup ==
    /\ pc = "led_setup"
    /\ \E dev \in DeviceConditions :
        LET r == LED_init(dev)
        IN  /\ trigger' = r.trigger
            /\ IF r.raised = ""
               THEN /\ pc' = "main_start"
                    /\ logged' = logged \cup r.log
                    /\ exitCode' = exitCode
               ELSE /\ pc' = "exit1"
                    /\ logged' = logged \cup r.log \cup
                           {Log("ERROR", "Failed to initialize LED", r.raised)}
                    /\ exitCode' = "1"
    /\ UNCHANGED <<threshold, consecutive_failures, current_status,
                   check_count, is_connected, brightness, origTrigger,
                   history, events, loopCalls, shutdownCalls, leftBy>>

\* lines 129-136: the locals of main() and entry to the try block.
MainStart ==
    /\ pc = "main_start"
    /\ pc' = "probe"
    /\ consecutive_failures' = 0
    /\ current_status' = UNKNOWN
    /\ check_count' = 0
    /\ logged' = logged \cup
           {Log("INFO", "Internet Connectivity Monitor started", "")}
    /\ UNCHANGED <<threshold, is_connected, brightness, trigger, exitCode,
                   origTrigger, history, events, loopCalls, shutdownCalls,
                   leftBy>>

\* lines 138-143: count the tick, ping, log the result at debug level.  An
\* exception that check_internet_connectivity raised would reach the handler
\* of line 165.
Probe ==
    /\ pc = "probe"
    /\ check_count < MaxTicks
    /\ check_count' = check_count + 1
    /\ \E outcome \in PingOutcomes :
        LET r == check_internet_connectivity(outcome)
        IN  IF r.raised = ""
            THEN /\ is_connected' = r.result
                 /\ logged' = logged \cup r.log \cup
                        {Log("DEBUG", "Check",
                             IF r.result THEN "SUCCESS" ELSE "FAILED")}
                 /\ pc' = "debounce"
                 /\ leftBy' = leftBy
            ELSE /\ is_connected' = is_connected
                 /\ logged' = logged \cup r.log \cup
                        {Log("ERROR", "Unexpected error in monitoring loop",
                             "")}
                 /\ pc' = "finally_off"
                 /\ leftBy' = "Exception"
    /\ UNCHANGED <<threshold, consecutive_failures, current_status,
                   brightness, trigger, exitCode, origTrigger, history,
                   events, loopCalls, shutdownCalls>>

\* lines 145-159: the counter, the status and the LED.
Debounce ==
    /\ pc = "debounce"
    /\ pc' = "sleep"
    /\ history' = Append(history, is_connected)
    /\ \E wr \in BrightnessOutcomes :
        IF is_connected
        THEN /\ consecutive_failures' =
                    CounterAfterSuccess(consecutive_failures)
             /\ IF UpTransition(current_status)
                THEN /\ brightness' = on(wr).brightness
                     /\ logged' = logged \cup on(wr).log
                     /\ loopCalls' = Append(loopCalls, "on")
                     /\ events' = Append(events,
                            [tick |-> check_count, to |-> "UP",
                             failures |-> 0])
                     /\ current_status' = "UP"
                ELSE UNCHANGED <<brightness, logged, loopCalls, events,
                                 current_status>>
        ELSE LET cf == CounterAfterFailure(consecutive_failures)
             IN  /\ consecutive_failures' = cf
                 /\ IF ThresholdReached(cf)
                    THEN IF DownTransition(current_status)
                         THEN /\ brightness' = off(wr).brightness
                              /\ logged' = logged \cup off(wr).log
                              /\ loopCalls' = Append(loopCalls, "off")
                              /\ events' = Append(events,
                                     [tick |-> check_count, to |-> "DOWN",
                                      failures |-> cf])
                              /\ current_status' = "DOWN"
                         ELSE UNCHANGED <<brightness, logged, loopCalls,
                                          events, current_status>>
                    ELSE /\ logged' = logged \cup
                                {Log("DEBUG", "Connection failed", "")}
                         /\ UNCHANGED <<brightness, loopCalls, events,
                                        current_status>>
    /\ UNCHANGED <<threshold, check_count, is_connected, trigger, exitCode,
                   origTrigger, shutdownCalls, leftBy>>

\* line 161: time.sleep(PING_INTERVAL) returns and the loop goes round.
Sleep ==
    /\ pc = "sleep"
    /\ pc' = "probe"
    /\ UNCHANGED <<threshold, consecutive_failures, current_status,
                   check_count, is_connected, brightness, trigger, logged,
                   exitCode, origTrigger, history, events, loopCalls,
                   shutdownCalls, leftBy>>

\* A variant of the interrupt with one slip: inside the loop the interrupt
\* is only noted and acted upon once the loop is at its sleep.
KeyboardInterrupt_Deferred ==
    /\ pc \notin Ended
    /\ IF pc \in InLoop
       THEN /\ pc' = IF pc = "sleep" THEN "finally_off" ELSE pc
            /\ logged' = logged \cup
                   {Log("INFO", "Monitor interrupted by user", "")}
            /\ leftBy' = "KeyboardInterrupt"
            /\ exitCode' = exitCode
       ELSE /\ pc' = "traceback"
            /\ exitCode' = "SIGINT"
            /\ UNCHANGED <<logged, leftBy>>
    /\ UNCHANGED <<threshold, consecutive_failures, current_status,
                   check_count, is_connected, brightness, trigger,
                   origTrigger, history, events, loopCalls, shutdownCalls>>

\* SIGINT.  Python raises KeyboardInterrupt in the main thread wherever it
\* is.  Inside the try block (lines 137-161) the handler of line 163 takes
\* it and the finally block follows.  Before the try block and inside the
\* finally block nothing catches it: LED's handlers and the handler of line
\* 97 catch Exception, which KeyboardInterrupt is not.
KeyboardInterrupt ==
    /\ pc \notin Ended
    /\ IF pc \in InLoop
       THEN /\ pc' = "finally_off"
            /\ logged' = logged \cup
                   {Log("INFO", "Monitor interrupted by user", "")}
            /\ leftBy' = "KeyboardInterrupt"
            /\ exitCode' = exitCode
       ELSE /\ pc' = "traceback"
            /\ exitCode' = "SIGINT"
            /\ UNCHANGED <<logged, leftBy>>
    /\ UNCHANGED <<threshold, consecutive_failures, current_status,
                   check_count, is_connected, brightness, trigger,
                   origTrigger, history, events, loopCalls, shutdownCalls>>

\* SIGTERM.  The program installs no handler, so the process is ended by the
\* signal's default action and no Python code runs any more.
SIGTERM ==
    /\ pc \notin Ended
    /\ pc' = "killed"
    /\ exitCode' = "SIGTERM"
    /\ UNCHANGED <<threshold, consecutive_failures, current_status,
                   check_count, is_connected, brightness, trigger, logged,
                   origTrigger, history, events, loopCalls, shutdownCalls,
                   leftBy>>

\* lines 165-166: an exception other than KeyboardInterrupt raised by a
\* statement of the loop body.  The try statement encloses the while loop,
\* so the handler runs after the loop has been left.
UnexpectedException ==
    /\ pc \in InLoop
    /\ pc' = "finally_off"
    /\ logged' = logged \cup
           {Log("ERROR", "Unexpected error in monitoring loop", "")}
    /\ leftBy' = "Exception"
    /\ UNCHANGED <<threshold, consecutive_failures, current_status,
                   check_count, is_connected, brightness, trigger, exitCode,
                   origTrigger, history, events, loopCalls, shutdownCalls>>

\* A variant of the finally block with one slip: led.off() left out.
FinallyOff_Omitted ==
    /\ pc = "finally_off"
    /\ pc' = "finally_restore"
    /\ UNCHANGED <<threshold, consecutive_failures, current_status,
                   check_count, is_connected, brightness, trigger, logged,
                   exitCode, origTrigger, history, events, loopCalls,
                   shutdownCalls, leftBy>>

\* line 168
FinallyOff ==
    /\ pc = "finally_off"
    /\ pc' = "finally_restore"
    /\ \E wr \in BrightnessOutcomes :
        /\ brightness' = off(wr).brightness
        /\ logged' = logged \cup off(wr).log
    /\ shutdownCalls' = Append(shutdownCalls, "off")
    /\ UNCHANGED <<threshold, consecutive_failures, current_status,
                   check_count, is_connected, trigger, exitCode, origTrigger,
                   history, events, loopCalls, leftBy>>

\* line 169
FinallyRestore ==
    /\ pc = "finally_restore"
    /\ pc' = "finally_log"
    /\ \E wr \in WriteOutcomes :
        /\ trigger' = restore_default(wr).trigger
        /\ logged' = logged \cup restore_default(wr).log
    /\ shutdownCalls' = Append(shutdownCalls, "restore_default")
    /\ UNCHANGED <<threshold, consecutive_failures, current_status,
                   check_count, is_connected, brightness, exitCode,
                   origTrigger, history, events, loopCalls, leftBy>>

\* lines 170-173: the last log line; main() returns and the script ends.
FinallyLog ==
    /\ pc = "finally_log"
    /\ pc' = "exit0"
    /\ logged' = logged \cup
           {Log("INFO", "Internet Connectivity Monitor stopped", "")}
    /\ exitCode' = "0"
    /\ UNCHANGED <<threshold, consecutive_failures, current_status,
                   check_count, is_connected, brightness, trigger,
                   origTrigger, history, events, loopCalls, shutdownCalls,
                   leftBy>>

Next ==
    \/ LEDSetup
    \/ MainStart
    \/ Probe
    \/ Debounce
    \/ Sleep
    \/ KeyboardInterrupt
    \/ SIGTERM
    \/ UnexpectedException
    \/ FinallyOff
    \/ FinallyRestore
    \/ FinallyLog

Spec == Init /\ [][Next]_vars

(***************************************************************************)
(* Properties.  They read the probe results from history and the           *)
(* transitions from events, and compute run lengths from history alone.    *)
(***************************************************************************)
\* The number of failed probes among the first n of h that come last, back
\* to the last success.
RECURSIVE FailuresUpTo(_, _)
FailuresUpTo(h, n) ==
    IF n = 0 \/ h[n] THEN 0 ELSE 1 + FailuresUpTo(h, n - 1)

\* The number of failed probes at the end of h, back to the last success.
TrailingFailures(h) == FailuresUpTo(h, Len(h))

\* The consecutive failures observed at tick t, that one included.
RunEndingAt(t) == FailuresUpTo(history, t)

\* h holds n consecutive failures somewhere.
HasRun(h, n) ==
    \E t \in n..Len(h) : \A k \in (t - n + 1)..t : ~h[k]

\* The transitions logged at tick t, and the status the tick started with.
EventsAt(t) == SelectSeq(events, LAMBDA e : e.tick = t)
StatusBefore(t) ==
    LET prior == SelectSeq(events, LAMBDA e : e.tick < t)
    IN  IF prior = <<>> THEN UNKNOWN ELSE prior[Len(prior)].to
Count(seq, x) == Cardinality({i \in 1..Len(seq) : seq[i] = x})

\* One pass of the loop body.
TickStep == pc = "debounce" /\ pc' = "sleep"

\* C1: the status is DOWN only when at least threshold consecutive failed
\* probes have been observed since the last success (or since start), every
\* DOWN transition happens at a tick where that many have been observed, and
\* a stream whose every run of failures is shorter than the threshold never
\* puts the status in DOWN nor switches the LED off.
C1_DownOnlyAfterThreshold ==
    /\ current_status = "DOWN" => TrailingFailures(history) >= threshold
    /\ \A i \in 1..Len(events) :
           events[i].to = "DOWN" => RunEndingAt(events[i].tick) >= threshold
    /\ ~HasRun(history, threshold) =>
           /\ current_status # "DOWN"
           /\ \A i \in 1..Len(events) : events[i].to # "DOWN"
           /\ Count(loopCalls, "off") = 0

\* C1 witness: a run of failures shorter than the threshold, broken by a
\* success, then a run that reaches the threshold and the status DOWN.
C1_Witness ==
    /\ threshold = 2
    /\ history = <<FALSE, TRUE, FALSE, FALSE>>
    /\ current_status = "DOWN"
    /\ pc = "sleep"

\* C2: after a tick with a successful probe the failure counter is 0 and the
\* status is UP, whatever the number of failures before; a successful tick
\* that starts in DOWN logs exactly one transition, to UP, a successful tick
\* that starts in UP logs none, and led.on() has been called once per UP
\* transition.
C2_SuccessClearsAndRaisesOnce ==
    /\ (history # <<>> /\ history[Len(history)]) =>
           consecutive_failures = 0 /\ current_status = "UP"
    /\ \A t \in 1..Len(history) :
           history[t] =>
               LET before == StatusBefore(t)
                   logs == EventsAt(t)
               IN  /\ before = "DOWN" =>
                          Len(logs) = 1 /\ logs[1].to = "UP"
                   /\ before = "UP" => logs = <<>>
    /\ Count(loopCalls, "on") =
           Cardinality({i \in 1..Len(events) : events[i].to = "UP"})
    /\ current_status =
           IF events = <<>> THEN UNKNOWN ELSE events[Len(events)].to

\* C2 witness: more failures than the threshold, the status DOWN, then one
\* success that brings UP, then another success that brings nothing.
C2_Witness ==
    /\ threshold = 1
    /\ history = <<FALSE, FALSE, TRUE, TRUE>>
    /\ consecutive_failures = 0
    /\ current_status = "UP"
    /\ Len(events) = 2
    /\ loopCalls = <<"off", "on">>

\* C3: a tick with a successful probe while the status is UP, with a failed
\* probe while the status is DOWN, or with a failed probe that leaves the
\* counter below the threshold, leaves the status unchanged, logs no
\* transition and makes no LED call.
C3_NoTransitionWithoutChange ==
    [][(/\ TickStep
        /\ \/ is_connected /\ current_status = "UP"
           \/ ~is_connected /\ current_status = "DOWN"
           \/ ~is_connected /\ consecutive_failures' < threshold)
       => UNCHANGED <<current_status, events, loopCalls, brightness>>]_vars

\* C3 witness: the three silent ticks have happened in one run: a failure
\* below the threshold, a failure while DOWN and a success while UP.
C3_Witness ==
    /\ threshold = 2
    /\ history = <<FALSE, FALSE, FALSE, TRUE, TRUE>>
    /\ Len(events) = 2
    /\ current_status = "UP"

\* C4: a pass of the loop body that changes the status makes exactly one LED
\* call, on() for UP and off() for DOWN; a pass that leaves the status
\* unchanged makes none; no other step changes the status or makes a loop
\* call; so the number of calls of the loop stays equal to the number of
\* transitions.
C4_OneCallPerTransition ==
    /\ [][IF TickStep
          THEN IF current_status' # current_status
               THEN /\ loopCalls' = Append(loopCalls,
                           IF current_status' = "UP" THEN "on" ELSE "off")
                    /\ Len(events') = Len(events) + 1
               ELSE UNCHANGED <<loopCalls, events>>
          ELSE UNCHANGED <<current_status, loopCalls, events>>]_vars
    /\ [](Len(loopCalls) = Len(events) /\ Len(events) <= Len(history))

\* C4 witness: five probe samples, two transitions, two LED calls.
C4_Witness ==
    /\ Len(history) = 5
    /\ loopCalls = <<"on", "off">>
    /\ Len(events) = 2

\* The LED was constructed: __init__ got as far as setting the trigger.
LEDConstructed == Log("DEBUG", "LED trigger set to", "none") \in logged

\* Some write to the brightness file or to the trigger file has failed.
WriteFailed ==
    \E l \in logged :
        l.msg \in {"Failed to turn LED on", "Failed to turn LED off",
                   "Failed to set LED trigger",
                   "Permission denied setting trigger"}

\* C5: between ticks the LED's brightness matches the status: UP implies the
\* brightness file holds 1, DOWN implies it holds 0, and while the status is
\* unknown the loop has made no brightness write; write failures included.
C5_LedMatchesStatus ==
    pc \in {"probe", "sleep"} =>
        /\ current_status = "UP" => brightness = "1"
        /\ current_status = "DOWN" => brightness = "0"
        /\ current_status = UNKNOWN => loopCalls = <<>>

\* C6: a failed brightness write leaves the loop running, and a tick with
\* the same probe outcome, finding the LED not matching the status, attempts
\* the write again.
C6_FailedWriteRetried ==
    [][TickStep =>
          /\ pc' \in InLoop
          /\ (is_connected /\ current_status = "UP" /\ brightness # "1")
                 => loopCalls' = Append(loopCalls, "on")
          /\ (~is_connected /\ current_status = "DOWN" /\ brightness # "0")
                 => loopCalls' = Append(loopCalls, "off")]_vars

\* C7: the step that catches and logs an unexpected exception of a tick
\* leaves the program in the loop, with status and failure counter as they
\* were.
C7_ExceptionKeepsLoopRunning ==
    [][(/\ pc \in InLoop
        /\ Log("ERROR", "Unexpected error in monitoring loop", "")
               \in logged' \ logged)
       => /\ pc' \in InLoop
          /\ UNCHANGED <<current_status, consecutive_failures>>]_vars

\* C8: once the loop is left by KeyboardInterrupt or by an unexpected
\* exception, in any status, the finally block calls led.off() and then
\* led.restore_default(), each at most once and in that order, and both have
\* been called exactly once when main() reaches its last statement; main()
\* returns only through this sequence.
C8_ShutdownSequence ==
    /\ leftBy \in {"KeyboardInterrupt", "Exception"} =>
           /\ pc \in InFinally \cup {"exit0", "traceback", "killed"}
           /\ shutdownCalls \in
                  {<<>>, <<"off">>, <<"off", "restore_default">>}
    /\ leftBy = "" => shutdownCalls = <<>> /\ pc \notin InFinally
    /\ pc = "finally_off" => shutdownCalls = <<>>
    /\ pc = "finally_restore" => shutdownCalls = <<"off">>
    /\ pc \in {"finally_log", "exit0"} =>
           /\ shutdownCalls = <<"off", "restore_default">>
           /\ leftBy \in {"KeyboardInterrupt", "Exception"}

\* C8 witness: interrupted while DOWN under the shipped threshold, main()
\* has returned after off() and restore_default().
C8_Witness ==
    /\ pc = "exit0"
    /\ threshold = CONSECUTIVE_FAILURES
    /\ leftBy = "KeyboardInterrupt"
    /\ current_status = "DOWN"
    /\ shutdownCalls = <<"off", "restore_default">>

\* C9: whenever the process has ended after the LED was constructed, both
\* led.off() and led.restore_default() have been called.
C9_ReleasedOnEveryExit ==
    (pc \in Ended /\ LEDConstructed) =>
        /\ Count(shutdownCalls, "off") >= 1
        /\ Count(shutdownCalls, "restore_default") >= 1

\* C10: after construction and a graceful shutdown in which no write failed
\* the trigger file holds the mode it held before construction; and once
\* restore_default() has logged a failure main() is at its last statement or
\* beyond.
C10_TriggerRoundTrip ==
    /\ (pc = "exit0" /\ ~WriteFailed) => trigger = origTrigger
    /\ (\E l \in logged : l.msg = "Failed to restore LED to default") =>
           pc \in {"finally_log", "exit0", "traceback", "killed"}

\* LED.__init__ has logged a failure.
ConstructionFailed ==
    \E l \in logged : l.msg = "Failed to initialize LED at"

\* C11: once LED construction has failed the process is at exit(1) with a
\* non-zero code and takes no further step: construction is not retried,
\* main() is never entered, no probe is issued and no LED call is made; and
\* a run that constructed the LED and returned from main() ends with code 0,
\* the only way to end with code 0.
C11_FailedConstructionExits ==
    /\ ConstructionFailed =>
           /\ pc = "exit1"
           /\ exitCode = "1"
           /\ ~ENABLED Next
           /\ Log("INFO", "Internet Connectivity Monitor started", "")
                  \notin logged
           /\ check_count = 0 /\ history = <<>> /\ events = <<>>
           /\ loopCalls = <<>> /\ shutdownCalls = <<>>
           /\ trigger = origTrigger
    /\ pc = "exit1" => ConstructionFailed
    /\ pc = "exit0" => exitCode = "0" /\ LEDConstructed
    /\ exitCode = "0" => pc = "exit0" /\ leftBy # ""
    /\ exitCode = "1" => pc = "exit1"

\* C11 witness: construction failed at the write of the trigger file.
C11_Witness ==
    /\ pc = "exit1"
    /\ exitCode = "1"
    /\ Log("ERROR", "Permission denied setting trigger", "none") \in logged

\* The error-level events of a start under device condition dev: those of
\* LED.__init__ and the one of the handler of lines 97-98, each with the text
\* of the exception it interpolates.
StartupErrors(dev) ==
    LET r == LED_init(dev)
    IN  {l \in r.log \cup {Log("ERROR", "Failed to initialize LED", r.raised)} :
            l.level = "ERROR"}

\* C12: the error events of a start that fails on a permission, at the open
\* of the brightness file or at the write of the trigger file, differ from
\* the error events of a start that fails on a missing device; and the
\* error events of every failed start are those of one device condition.
\* StartupErrors reads no state that later steps write, so it is evaluated
\* where the start happens: before construction and after a failed one.
C12_PermissionDistinctFromMissing ==
    /\ pc \in {"led_setup", "exit1"} =>
           \A perm \in {"brightness_denied", "trigger_denied"} :
               StartupErrors(perm) # StartupErrors("missing")
    /\ pc = "exit1" =>
           \E d \in DeviceConditions \ {"ok"} :
               {l \in logged : l.level = "ERROR"} = StartupErrors(d)

\* C12 witness: a start that failed on the permission of the brightness
\* file, where no handler of its own names the permission.
C12_Witness ==
    /\ pc = "exit1"
    /\ Log("ERROR", "Failed to initialize LED at", "PermissionError")
           \in logged
    /\ Log("ERROR", "Permission denied setting trigger", "none")
           \notin logged

\* C13: check_internet_connectivity raises nothing to its caller, returns
\* False for a non-zero return code, a timeout and an error launching the
\* ping, and True only for return code 0; so the step that issues a probe
\* always goes on to the loop body, the loop still entered, and a ping that
\* logged a timeout or an error has set is_connected to False.
C13_ProbeNeverPropagates ==
    /\ [](\A o \in PingOutcomes :
              /\ check_internet_connectivity(o).raised = ""
              /\ check_internet_connectivity(o).result = (o = "rc0"))
    /\ [][check_count' # check_count =>
              /\ pc = "probe" /\ pc' = "debounce"
              /\ leftBy' = leftBy
              /\ (logged' \ logged) \cap
                     {Log("WARNING", "Ping timed out", ""),
                      Log("ERROR", "Error during ping", "OSError")} # {}
                     => ~is_connected']_vars

\* C13 witness: the ping could not be launched; the loop is at its body with
\* is_connected False.
C13_Witness ==
    /\ pc = "debounce"
    /\ ~is_connected
    /\ Log("ERROR", "Error during ping", "OSError") \in logged
    /\ leftBy = ""

\* The loop body has consumed at least one probe result, all of them
\* failures, and fewer of them than the threshold.
OnlyFewFailures ==
    /\ history # <<>>
    /\ \A t \in 1..Len(history) : ~history[t]
    /\ Len(history) < threshold

\* C14 as stated: in a run of only failed probes, fewer than the threshold,
\* no transition is logged, the status is unknown, and once main() has
\* returned no led.on() or led.off() call has been made at all.
C14_IndicatorUntouchedAtEnd ==
    OnlyFewFailures =>
        /\ events = <<>>
        /\ current_status = UNKNOWN
        /\ loopCalls = <<>>
        /\ pc = "exit0" => Count(shutdownCalls, "off") = 0

\* C14 amended: in a run of only failed probes, fewer than the threshold, no
\* transition is logged, the status is unknown and the loop has made no
\* led.on() or led.off() call; the only LED calls of the run are those of the
\* shutdown sequence, led.off() and led.restore_default(), both made when
\* main() has returned.
C14_LoopLeavesIndicatorUntouched ==
    OnlyFewFailures =>
        /\ events = <<>>
        /\ current_status = UNKNOWN
        /\ loopCalls = <<>>
        /\ Count(shutdownCalls, "on") = 0
        /\ pc \in InLoop => shutdownCalls = <<>>
        /\ pc = "exit0" => shutdownCalls = <<"off", "restore_default">>

\* C14 witness: the shipped threshold, two failed probes, the run ended.
C14_Witness ==
    /\ threshold = CONSECUTIVE_FAILURES
    /\ history = <<FALSE, FALSE>>
    /\ pc = "exit0"
    /\ current_status = UNKNOWN
    /\ shutdownCalls = <<"off", "restore_default">>

\* The reference debouncer: fed the stream h from position i on, with
\* counter cf and status st, it yields the transitions as <<tick, status>>.
\* true: the counter becomes 0, UP is emitted unless the status is UP;
\* false: the counter grows by 1, DOWN is emitted when it has reached the
\* threshold th unless the status is DOWN.
RECURSIVE Reference(_, _, _, _, _)
Reference(h, th, i, cf, st) ==
    IF i > Len(h) THEN <<>>
    ELSE IF h[i]
    THEN IF st # "UP"
         THEN <<(<<i, "UP">>)>> \o Reference(h, th, i + 1, 0, "UP")
         ELSE Reference(h, th, i + 1, 0, st)
    ELSE IF cf + 1 >= th /\ st # "DOWN"
         THEN <<(<<i, "DOWN">>)>> \o Reference(h, th, i + 1, cf + 1, "DOWN")
         ELSE Reference(h, th, i + 1, cf + 1, st)

\* The transitions the loop has logged, as <<tick, status>>.
Emitted == [i \in 1..Len(events) |-> <<events[i].tick, events[i].to>>]

\* C15: for every stream consumed so far and every threshold the transitions
\* logged by the loop, with their ticks, are those of the reference
\* debouncer; threshold 3 with [T,T,F,F,F,T] gives UP at 1, DOWN at 5, UP at
\* 6, and threshold 1 with [F,T,F] gives DOWN at 1, UP at 2, DOWN at 3.
C15_MatchesReference ==
    /\ Emitted = Reference(history, threshold, 1, 0, UNKNOWN)
    /\ (threshold = 3 /\ history = <<TRUE, TRUE, FALSE, FALSE, FALSE, TRUE>>)
           => Emitted = << <<1, "UP">>, <<5, "DOWN">>, <<6, "UP">> >>
    /\ (threshold = 1 /\ history = <<FALSE, TRUE, FALSE>>)
           => Emitted = << <<1, "DOWN">>, <<2, "UP">>, <<3, "DOWN">> >>

\* C15 witness: the six-tick scenario has run under threshold 3.
C15_Witness ==
    /\ threshold = 3
    /\ history = <<TRUE, TRUE, FALSE, FALSE, FALSE, TRUE>>
    /\ Len(events) = 3
    /\ current_status = "UP"

C17_DownAtThresholdTick ==
    /\ consecutive_failures >= threshold => current_status = "DOWN"
    /\ \A t \in 1..Len(history) :
           RunEndingAt(t) = threshold =>
               LET logs == EventsAt(t)
               IN  Len(logs) = 1 /\ logs[1].to = "DOWN"
    /\ (history # <<>> /\ history[Len(history)]) => current_status = "UP"
    /\ (threshold = 1 /\ history # <<>> /\ ~history[Len(history)])
           => current_status = "DOWN"

\* C17 witness: threshold 1, a success and then one failure: DOWN at once.
C17_Witness ==
    /\ threshold = 1
    /\ history = <<TRUE, FALSE>>
    /\ current_status = "DOWN"
    /\ Len(events) = 2

\* C18: the counter is the number of failed probes consumed since the last
\* success (or since start), so 0 after a success and one more after each
\* failure, never negative, and above the threshold when failures go on
\* while the status is DOWN.
C18_CounterIsTrailingFailures ==
    /\ [](consecutive_failures = TrailingFailures(history))
    /\ [](consecutive_failures >= 0)
    /\ [][TickStep =>
             consecutive_failures' =
                 IF is_connected THEN 0 ELSE consecutive_failures + 1]_vars

\* C18 witness: the counter has passed the threshold while DOWN.
C18_Witness ==
    /\ current_status = "DOWN"
    /\ threshold = 2
    /\ consecutive_failures = 4
    /\ history = <<TRUE, FALSE, FALSE, FALSE, FALSE>>

\* C19: every DOWN transition reports a failure count equal to the
\* threshold; successive transitions alternate between UP and DOWN; and once
\* a transition has been logged the status is UP or DOWN, as the last one
\* says.
C19_DownCountAndAlternation ==
    /\ \A i \in 1..Len(events) :
           events[i].to = "DOWN" => events[i].failures = threshold
    /\ \A i \in 1..(Len(events) - 1) : events[i].to # events[i + 1].to
    /\ events # <<>> => current_status = events[Len(events)].to
    /\ current_status = UNKNOWN => events = <<>>
    /\ consecutive_failures > threshold => current_status = "DOWN"

\* C19 witness: DOWN, UP, DOWN under threshold 2, each DOWN reporting 2.
C19_Witness ==
    /\ threshold = 2
    /\ Len(events) = 3
    /\ events[1].to = "DOWN" /\ events[1].failures = 2
    /\ events[3].to = "DOWN" /\ events[3].failures = 2
    /\ consecutive_failures = 2

\* C20: no LED call is made before construction has set the trigger to
\* "none"; the trigger is "none" from the end of construction to the call of
\* restore_default(), in every state of the loop and after led.off() of the
\* finally block; and only construction and restore_default() write it.
C20_TriggerManualWhileMonitoring ==
    /\ [](pc = "led_setup" => loopCalls = <<>> /\ shutdownCalls = <<>>)
    /\ [](pc \in {"main_start", "finally_off", "finally_restore"} \cup InLoop
             => trigger = "none" /\ LEDConstructed)
    /\ []((LEDConstructed /\ trigger # "none") =>
             /\ trigger = "mmc0"
             /\ shutdownCalls = <<"off", "restore_default">>)
    /\ [][trigger' # trigger =>
             \/ pc = "led_setup" /\ trigger' = "none"
             \/ /\ pc = "finally_restore"
                /\ shutdownCalls = <<"off">>
                /\ shutdownCalls' = <<"off", "restore_default">>]_vars

\* C20 witness: monitoring has run with the trigger at "none" and
\* restore_default() has written it after the last led.off().
C20_Witness ==
    /\ pc = "finally_log"
    /\ trigger = "mmc0"
    /\ origTrigger = "heartbeat"
    /\ Len(loopCalls) = 2
    /\ shutdownCalls = <<"off", "restore_default">>
====
